---- MODULE Spec2Model ----
(***************************************************************************)
(* Model of src/topo.py: the NetworkTopo topology description, the         *)
(* LinuxRouter node class and the run() entry point, together with the     *)
(* part of the emulation engine's behaviour that the calls in run() drive  *)
(* (node and interface creation, host configuration, command execution,    *)
(* teardown).                                                              *)
(*                                                                         *)
(* Encodings.  An IPv4 address with prefix length 'a.b.c.d/p' is the tuple *)
(* <<a, b, c, d, p>>; a bare address is given p = 32.  An interface name   *)
(* '<node>-eth<n>' is the pair <<node, n>>.  A keyword-argument dictionary *)
(* is a function from keyword strings to values.                           *)
(***************************************************************************)
EXTENDS Integers, Sequences, FiniteSets, TLC

VARIABLES
    pc,         \* position in run()
    i,          \* index of the next call / element inside the current position
    topoNodes,  \* Topo graph: node name -> keyword options
    topoPorts,  \* Topo graph: node name -> number of ports handed out
    topoLinks,  \* Topo graph: sequence of link option dictionaries
    hosts,      \* Mininet.hosts: names of the created nodes, in creation order
    node,       \* live nodes: name -> [cls, params, state]
    intfs,      \* live interfaces: interface name -> [node, port, ip, peer]
    links,      \* Mininet.links: sequence of [intf1, intf2]
    routes,     \* per node: set of non-connected routes [dst, via, dev]
    fwd,        \* per node: value of net.ipv4.ip_forward in its namespace
    filter,     \* per node: set of FORWARD-chain DROP rules [proto, dst]
    started,    \* Mininet.start() has returned
    cmdLog,     \* every command executed on a node shell, in order
    phaseLog,   \* the phases of run() in the order they were entered
    pings,      \* number of probes typed in the interactive session
    lastPing,   \* outcome of the last probe
    envFwd      \* ip_forward value a fresh namespace inherits

vars == <<pc, i, topoNodes, topoPorts, topoLinks, hosts, node, intfs, links,
          routes, fwd, filter, started, cmdLog, phaseLog, pings, lastPing,
          envFwd>>

----------------------------------------------------------------------------
(* Bounds of the model *)

\* number of probes the operator may type before leaving the session
MaxPings == 2
\* number of forwarding steps after which a packet counts as looping
MaxHops == 4

----------------------------------------------------------------------------
(* Addresses *)

NoIP == <<>>
Empty == <<>>

RECURSIVE Pow2(_)
Pow2(n) == IF n = 0 THEN 1 ELSE 2 * Pow2(n - 1)

\* the network part of address a under prefix length p, as two 16-bit halves
Mask(a, p) ==
    LET hi == a[1] * 256 + a[2]
        lo == a[3] * 256 + a[4]
    IN  IF p <= 16 THEN <<hi \div Pow2(16 - p), 0>>
                   ELSE <<hi, lo \div Pow2(32 - p)>>

\* address a lies in the subnet of the prefixed address n
InSubnet(a, n) == a # NoIP /\ n # NoIP /\ Mask(a, n[5]) = Mask(n, n[5])

\* the host part: the four octets without the prefix length
Addr(a) == <<a[1], a[2], a[3], a[4]>>

----------------------------------------------------------------------------
(* NetworkTopo.build: the calls, in program order *)

defaultr0IP == <<192, 168, 1, 1, 24>>
defaultr1IP == <<192, 168, 1, 2, 24>>

\* addNode / addHost calls
BuildNodes ==
    << [op |-> "addNode", name |-> "r0",
        opts |-> [cls |-> "LinuxRouter", ip |-> defaultr0IP]],
       [op |-> "addNode", name |-> "r1",
        opts |-> [cls |-> "LinuxRouter", ip |-> defaultr1IP]],
       [op |-> "addHost", name |-> "h1",
        opts |-> [ip |-> <<192, 168, 2, 100, 24>>,
                  defaultRoute |-> <<192, 168, 2, 1, 32>>]],
       [op |-> "addHost", name |-> "h2",
        opts |-> [ip |-> <<192, 168, 3, 100, 24>>,
                  defaultRoute |-> <<192, 168, 3, 1, 32>>]],
       [op |-> "addHost", name |-> "h3",
        opts |-> [ip |-> <<192, 168, 5, 100, 24>>,
                  defaultRoute |-> <<192, 168, 5, 1, 32>>]],
       [op |-> "addHost", name |-> "h4",
        opts |-> [ip |-> <<192, 168, 4, 100, 24>>,
                  defaultRoute |-> <<192, 168, 4, 1, 32>>]] >>

\* addLink calls; the first one passes its addresses under the keywords
\* param1 / param2, the others under params2
BuildLinks ==
    << [op |-> "addLink", node1 |-> "r0", node2 |-> "r1",
        opts |-> [intfName1 |-> <<"r0", 1>>, param1 |-> [ip |-> defaultr0IP],
                  intfName2 |-> <<"r1", 1>>, param2 |-> [ip |-> defaultr1IP]]],
       [op |-> "addLink", node1 |-> "h1", node2 |-> "r0",
        opts |-> [intfName2 |-> <<"r0", 2>>,
                  params2 |-> [ip |-> <<192, 168, 2, 1, 24>>]]],
       [op |-> "addLink", node1 |-> "h2", node2 |-> "r0",
        opts |-> [intfName2 |-> <<"r0", 3>>,
                  params2 |-> [ip |-> <<192, 168, 3, 1, 24>>]]],
       [op |-> "addLink", node1 |-> "h3", node2 |-> "r1",
        opts |-> [intfName2 |-> <<"r1", 3>>,
                  params2 |-> [ip |-> <<192, 168, 5, 1, 24>>]]],
       [op |-> "addLink", node1 |-> "h4", node2 |-> "r1",
        opts |-> [intfName2 |-> <<"r1", 2>>,
                  params2 |-> [ip |-> <<192, 168, 4, 1, 24>>]]] >>

\* variant: the last addLink call is missing
BuildCallsNoLastLink == BuildNodes \o SubSeq(BuildLinks, 1, Len(BuildLinks) - 1)

\* variant: h3 is given an address of h2's subnet
BuildCallsWrongSubnet ==
    [BuildNodes EXCEPT ![5].opts.ip = <<192, 168, 3, 100, 24>>] \o BuildLinks

BuildCalls == BuildNodes \o BuildLinks

----------------------------------------------------------------------------
(* run(): the statements in program order, and the five setup commands *)

\* variant: the session is opened before the setup commands are issued
RunOrderSessionFirst == <<"topo", "mininet", "start", "cli", "cmds", "stop">>

RunOrder == <<"topo", "mininet", "start", "cmds", "cli", "stop">>

\* the four 'ip route add <dst> via <via> dev <dev>' commands
RunRoutes ==
    << [node |-> "r0", kind |-> "route", dst |-> <<192, 168, 4, 0, 24>>,
        via |-> <<192, 168, 1, 2, 32>>, dev |-> <<"r0", 1>>, proto |-> "any"],
       [node |-> "r0", kind |-> "route", dst |-> <<192, 168, 5, 0, 24>>,
        via |-> <<192, 168, 1, 2, 32>>, dev |-> <<"r0", 1>>, proto |-> "any"],
       [node |-> "r1", kind |-> "route", dst |-> <<192, 168, 2, 0, 24>>,
        via |-> <<192, 168, 1, 1, 32>>, dev |-> <<"r1", 1>>, proto |-> "any"],
       [node |-> "r1", kind |-> "route", dst |-> <<192, 168, 3, 0, 24>>,
        via |-> <<192, 168, 1, 1, 32>>, dev |-> <<"r1", 1>>, proto |-> "any"] >>

\* 'iptables -A FORWARD -p icmp -d 192.168.4.100 -j DROP'
RunFilter ==
    << [node |-> "r1", kind |-> "filter", dst |-> <<192, 168, 4, 100, 32>>,
        via |-> NoIP, dev |-> NoIP, proto |-> "icmp"] >>

\* variant: the first route names r0-eth2 as its egress interface
RunCmdsWrongDev == [RunRoutes EXCEPT ![1].dev = <<"r0", 2>>] \o RunFilter

\* variant: the third route is written for 192.168.6.0/24
RunCmdsWrongDst == [RunRoutes EXCEPT ![3].dst = <<192, 168, 6, 0, 24>>] \o RunFilter

RunCmds == RunRoutes \o RunFilter

\* the statement after s in run(), "done" after the last one
NextStmt(s) ==
    LET k == CHOOSE j \in 1..Len(RunOrder) : RunOrder[j] = s
    IN  IF k < Len(RunOrder) THEN RunOrder[k + 1] ELSE "done"

\* the first position of a statement: Mininet( topo ) creates the nodes, then
\* the links, then configures the nodes; net.stop() stops the links, then
\* terminates the nodes
Entry(s) ==
    CASE s = "mininet" -> "mn_hosts"
      [] s = "stop"    -> "stop_links"
      [] OTHER         -> s

After(p) ==
    CASE p = "mn_hosts"   -> "mn_links"
      [] p = "mn_links"   -> "mn_config"
      [] p = "mn_config"  -> Entry(NextStmt("mininet"))
      [] p = "stop_links" -> "stop_hosts"
      [] p = "stop_hosts" -> Entry(NextStmt("stop"))
      [] OTHER            -> Entry(NextStmt(p))

\* the phase of run() a position belongs to
PhaseOf(p) ==
    CASE p \in {"topo", "mn_hosts", "mn_links", "mn_config"} -> "construct"
      [] p = "start"                                          -> "start"
      [] p = "cmds"                                           -> "inject"
      [] p = "cli"                                            -> "session"
      [] p \in {"stop_links", "stop_hosts"}                   -> "stop"
      [] OTHER                                                -> "none"

\* a step taken at position pc is recorded under its phase when it opens one
Enter ==
    IF phaseLog # <<>> /\ phaseLog[Len(phaseLog)] = PhaseOf(pc)
    THEN phaseLog
    ELSE Append(phaseLog, PhaseOf(pc))

\* move to the next of n elements, or to the next position after the last
Advance(n) ==
    IF i < n THEN pc' = pc /\ i' = i + 1
             ELSE pc' = After(pc) /\ i' = 1

----------------------------------------------------------------------------
(* The topology graph (Topo.addNode / addHost / addLink as called by build) *)

\* addNode: the options are stored under the name; a name already present
\* has its options updated
AddNode(g, name, opts) ==
    IF name \in DOMAIN g THEN (name :> (opts @@ g[name])) @@ g
                         ELSE (name :> opts) @@ g

\* ports are numbered from 0 in the order a node's links are added
PortOf(ports, name) == IF name \in DOMAIN ports THEN ports[name] ELSE 0

AddPort(ports, n1, n2) ==
    (n1 :> (PortOf(ports, n1) + 1)) @@ (n2 :> (PortOf(ports, n2) + 1)) @@ ports

\* addLink: the keyword options are stored with the endpoints and their ports
AddLink(lks, ports, n1, n2, opts) ==
    Append(lks, [node1 |-> n1, node2 |-> n2,
                 port1 |-> PortOf(ports, n1),
                 port2 |-> PortOf(ports, n2)] @@ opts)

Init ==
    /\ pc = "topo"
    /\ i = 1
    /\ topoNodes = Empty
    /\ topoPorts = Empty
    /\ topoLinks = <<>>
    /\ hosts = <<>>
    /\ node = Empty
    /\ intfs = Empty
    /\ links = <<>>
    /\ routes = Empty
    /\ fwd = Empty
    /\ filter = Empty
    /\ started = FALSE
    /\ cmdLog = <<>>
    /\ phaseLog = <<>>
    /\ pings = 0
    /\ lastPing = [status |-> "none", hops |-> 0, at |-> "none"]
    /\ envFwd \in BOOLEAN

TopoAddNode ==
    /\ pc = "topo"
    /\ BuildCalls[i].op = "addNode"
    /\ topoNodes' = AddNode(topoNodes, BuildCalls[i].name, BuildCalls[i].opts)
    /\ phaseLog' = Enter
    /\ Advance(Len(BuildCalls))
    /\ UNCHANGED <<topoPorts, topoLinks, hosts, node, intfs, links, routes,
                   fwd, filter, started, cmdLog, pings, lastPing, envFwd>>

\* addHost is addNode with the host options
TopoAddHost ==
    /\ pc = "topo"
    /\ BuildCalls[i].op = "addHost"
    /\ topoNodes' = AddNode(topoNodes, BuildCalls[i].name, BuildCalls[i].opts)
    /\ phaseLog' = Enter
    /\ Advance(Len(BuildCalls))
    /\ UNCHANGED <<topoPorts, topoLinks, hosts, node, intfs, links, routes,
                   fwd, filter, started, cmdLog, pings, lastPing, envFwd>>

TopoAddLink ==
    /\ pc = "topo"
    /\ BuildCalls[i].op = "addLink"
    /\ LET c == BuildCalls[i]
       IN  /\ topoLinks' = AddLink(topoLinks, topoPorts, c.node1, c.node2, c.opts)
           /\ topoPorts' = AddPort(topoPorts, c.node1, c.node2)
    /\ phaseLog' = Enter
    /\ Advance(Len(BuildCalls))
    /\ UNCHANGED <<topoNodes, hosts, node, intfs, links, routes,
                   fwd, filter, started, cmdLog, pings, lastPing, envFwd>>

----------------------------------------------------------------------------
(* Mininet( topo=topo ): nodes, links and host configuration from the graph *)

\* position of a node name in the natural sort of names (letters, then number)
NaturalRank(name) ==
    CASE name = "h1" -> 1 [] name = "h2" -> 2 [] name = "h3" -> 3
      [] name = "h4" -> 4 [] name = "r0" -> 5 [] name = "r1" -> 6
      [] OTHER -> 7

\* the elements of the finite set S in increasing order of the key function;
\* the keys are pairwise different
RECURSIVE SortBy(_, _)
SortBy(S, key) ==
    IF S = {} THEN <<>>
    ELSE LET m == CHOOSE x \in S : \A y \in S : key[x] <= key[y]
         IN  <<m>> \o SortBy(S \ {m}, key)

\* topo.hosts(): the node names, sorted
TopoHosts == SortBy(DOMAIN topoNodes, [n \in DOMAIN topoNodes |-> NaturalRank(n)])

\* topo.links( sort=True ): indices of the links sorted by their endpoint
\* names, links between the same endpoints in the order they were added
TopoLinkOrder ==
    SortBy(1..Len(topoLinks),
           [k \in 1..Len(topoLinks) |->
               (NaturalRank(topoLinks[k].node1) * 8
                + NaturalRank(topoLinks[k].node2)) * (Len(topoLinks) + 1) + k])

\* the node class: cls when given, the default host class otherwise
ClsOf(opts) == IF "cls" \in DOMAIN opts THEN opts.cls ELSE "Host"

\* keywords a link consumes itself; every other keyword is passed on to
\* both of its interfaces
LinkKeywords ==
    {"node1", "node2", "port1", "port2", "intfName1", "intfName2",
     "addr1", "addr2", "intf", "cls1", "cls2", "params1", "params2", "fast"}

\* the parameters of one endpoint: its explicit dictionary (key is "params1"
\* or "params2") updated with the keywords the link does not consume
EndpointParams(l, key) ==
    LET explicit == IF key \in DOMAIN l THEN l[key] ELSE Empty
        rest     == [k \in (DOMAIN l) \ LinkKeywords |-> l[k]]
    IN  rest @@ explicit

\* the address an interface is configured with at creation: its ip parameter
ParamIP(params) == IF "ip" \in DOMAIN params THEN params.ip ELSE NoIP

\* the interface name of an endpoint: the explicit one, else <node>-eth<port>
EndpointName(l, key, n, port) == IF key \in DOMAIN l THEN l[key] ELSE <<n, port>>

\* Node.defaultIntf: the interface of n with the lowest port, NoIP without one
DefaultIntf(ifs, n) ==
    LET own == {x \in DOMAIN ifs : ifs[x].node = n}
    IN  IF own = {} THEN NoIP
        ELSE CHOOSE x \in own : \A y \in own : ifs[x].port <= ifs[y].port

\* the interface of n whose subnet contains address a, NoIP without one
IntfTowards(ifs, n, a) ==
    LET on == {x \in DOMAIN ifs : ifs[x].node = n /\ InSubnet(a, ifs[x].ip)}
    IN  IF on = {} THEN NoIP ELSE CHOOSE x \in on : TRUE

\* Node.config, setIP: the ip parameter goes to the default interface
ConfigIntfs(n) ==
    LET d == DefaultIntf(intfs, n)
    IN  IF d = NoIP \/ "ip" \notin DOMAIN node[n].params THEN intfs
        ELSE [intfs EXCEPT ![d].ip = node[n].params.ip]

\* Node.config, setDefaultRoute: 'via <gw>' installs a default route when the
\* gateway is on a connected subnet
ConfigRoutes(n, ifs) ==
    IF "defaultRoute" \notin DOMAIN node[n].params THEN routes[n]
    ELSE LET gw == node[n].params.defaultRoute
             d  == IntfTowards(ifs, n, gw)
         IN  IF d = NoIP THEN routes[n]
             ELSE routes[n] \cup {[dst |-> <<0, 0, 0, 0, 0>>, via |-> gw, dev |-> d]}

\* the steps of config() by node class: LinuxRouter.config runs the base
\* configuration, then enables forwarding
ConfigStepsNoForward(cls) == <<"config">>

ConfigSteps(cls) ==
    IF cls = "LinuxRouter" THEN <<"config", "sysctl1">> ELSE <<"config">>

\* the steps of terminate() by node class: LinuxRouter.terminate disables
\* forwarding, then runs the base termination
TerminateStepsBaseFirst(cls) ==
    IF cls = "LinuxRouter" THEN <<"terminate", "sysctl0">> ELSE <<"terminate">>

TerminateSteps(cls) ==
    IF cls = "LinuxRouter" THEN <<"sysctl0", "terminate">> ELSE <<"terminate">>

\* one step on node n, on s = [state, fwd, log]; a shell command on a
\* terminated node is not executed
OneStep(n, step, s) ==
    CASE step = "config" ->
           [s EXCEPT !.state = "running",
                     !.log = Append(@, [node |-> n, cmd |-> "config", k |-> 0, ok |-> TRUE])]
      [] step = "terminate" ->
           [s EXCEPT !.state = "terminated",
                     !.log = Append(@, [node |-> n, cmd |-> "terminate", k |-> 0, ok |-> TRUE])]
      [] step \in {"sysctl1", "sysctl0"} ->
           IF s.state = "terminated" THEN s
           ELSE [s EXCEPT !.fwd = (step = "sysctl1"),
                          !.log = Append(@, [node |-> n, cmd |-> step, k |-> 0, ok |-> TRUE])]

RECURSIVE ExecSteps(_, _, _)
ExecSteps(n, steps, s) ==
    IF steps = <<>> THEN s
    ELSE ExecSteps(n, Tail(steps), OneStep(n, Head(steps), s))

\* buildFromTopo, first loop: one node per name, of its class, with a shell
\* in a fresh namespace
MnAddHost ==
    /\ pc = "mn_hosts"
    /\ LET n == TopoHosts[i]
       IN  /\ node' = (n :> [cls |-> ClsOf(topoNodes[n]), params |-> topoNodes[n],
                             state |-> "unconfigured"]) @@ node
           /\ hosts' = Append(hosts, n)
           /\ fwd' = (n :> envFwd) @@ fwd
           /\ routes' = (n :> {}) @@ routes
           /\ filter' = (n :> {}) @@ filter
    /\ phaseLog' = Enter
    /\ Advance(Len(TopoHosts))
    /\ UNCHANGED <<topoNodes, topoPorts, topoLinks, intfs, links, started,
                   cmdLog, pings, lastPing, envFwd>>

\* buildFromTopo, second loop: one link per graph link, an interface at each
\* endpoint configured from that endpoint's parameters
MnAddLink ==
    /\ pc = "mn_links"
    /\ LET l  == topoLinks[TopoLinkOrder[i]]
           n1 == EndpointName(l, "intfName1", l.node1, l.port1)
           n2 == EndpointName(l, "intfName2", l.node2, l.port2)
       IN  /\ intfs' = (n1 :> [node |-> l.node1, port |-> l.port1, peer |-> n2,
                               ip |-> ParamIP(EndpointParams(l, "params1"))])
                       @@ (n2 :> [node |-> l.node2, port |-> l.port2, peer |-> n1,
                                  ip |-> ParamIP(EndpointParams(l, "params2"))])
                       @@ intfs
           /\ links' = Append(links, [intf1 |-> n1, intf2 |-> n2])
    /\ phaseLog' = Enter
    /\ Advance(Len(topoLinks))
    /\ UNCHANGED <<topoNodes, topoPorts, topoLinks, hosts, node, routes, fwd,
                   filter, started, cmdLog, pings, lastPing, envFwd>>

\* configHosts: config() of every node, in creation order
MnConfigHost ==
    /\ pc = "mn_config"
    /\ LET n == hosts[i]
           r == ExecSteps(n, ConfigSteps(node[n].cls),
                          [state |-> node[n].state, fwd |-> fwd[n], log |-> cmdLog])
           ifs == ConfigIntfs(n)
       IN  /\ intfs' = ifs
           /\ routes' = [routes EXCEPT ![n] = ConfigRoutes(n, ifs)]
           /\ node' = [node EXCEPT ![n].state = r.state]
           /\ fwd' = [fwd EXCEPT ![n] = r.fwd]
           /\ cmdLog' = r.log
    /\ phaseLog' = Enter
    /\ Advance(Len(hosts))
    /\ UNCHANGED <<topoNodes, topoPorts, topoLinks, hosts, links, filter,
                   started, pings, lastPing, envFwd>>

----------------------------------------------------------------------------
(* Packet forwarding over the live network *)

NoRoute == [dst |-> NoIP, via |-> NoIP, dev |-> NoIP]

\* the routing table of n: a connected route per addressed interface, and the
\* routes added by command whose interface still exists
Table(n) ==
    {[dst |-> intfs[x].ip, via |-> NoIP, dev |-> x] :
        x \in {y \in DOMAIN intfs : intfs[y].node = n /\ intfs[y].ip # NoIP}}
    \cup {r \in routes[n] : r.dev \in DOMAIN intfs}

\* longest-prefix match of address a in the table of n
Lookup(n, a) ==
    LET m == {r \in Table(n) : InSubnet(a, r.dst)}
    IN  IF m = {} THEN NoRoute
        ELSE CHOOSE r \in m : \A q \in m : r.dst[5] >= q.dst[5]

\* n has an interface with address a
Owns(n, a) ==
    \E x \in DOMAIN intfs :
        intfs[x].node = n /\ intfs[x].ip # NoIP /\ Addr(intfs[x].ip) = Addr(a)

\* a FORWARD rule of n drops the packet
Filtered(n, proto, a) ==
    \E f \in filter[n] : f.proto = proto /\ InSubnet(a, f.dst)

\* the fate of a packet for address a at node n after hops router hops;
\* transit is FALSE at the node that originates it
RECURSIVE Walk(_, _, _, _, _)
Walk(n, a, proto, hops, transit) ==
    IF node[n].state # "running" THEN [status |-> "down", hops |-> hops, at |-> n]
    ELSE IF Owns(n, a) THEN [status |-> "delivered", hops |-> hops, at |-> n]
    ELSE IF transit /\ ~fwd[n] THEN [status |-> "noforward", hops |-> hops, at |-> n]
    ELSE IF transit /\ Filtered(n, proto, a) THEN [status |-> "filtered", hops |-> hops, at |-> n]
    ELSE IF hops >= MaxHops THEN [status |-> "loop", hops |-> hops, at |-> n]
    ELSE LET r == Lookup(n, a)
         IN  IF r = NoRoute THEN [status |-> "noroute", hops |-> hops, at |-> n]
             ELSE LET gw   == IF r.via = NoIP THEN a ELSE r.via
                      peer == intfs[r.dev].peer
                  IN  IF \/ peer \notin DOMAIN intfs
                         \/ intfs[peer].ip = NoIP
                         \/ Addr(intfs[peer].ip) # Addr(gw)
                      THEN [status |-> "unreachable", hops |-> hops, at |-> n]
                      ELSE Walk(intfs[peer].node, a, proto,
                                IF transit THEN hops + 1 ELSE hops, TRUE)

\* a packet of protocol proto from node src to the configured address of dst
Deliver(src, dst, proto) == Walk(src, node[dst].params.ip, proto, 0, FALSE)

Protocols == {"icmp", "tcp"}

----------------------------------------------------------------------------
(* run(): start, the setup commands, the session, stop *)

\* net.start(): the network has neither controllers nor switches to start
NetStart ==
    /\ pc = "start"
    /\ started' = TRUE
    /\ phaseLog' = Enter
    /\ Advance(1)
    /\ UNCHANGED <<topoNodes, topoPorts, topoLinks, hosts, node, intfs, links,
                   routes, fwd, filter, cmdLog, pings, lastPing, envFwd>>

\* 'ip route add <dst> via <via> dev <dev>' on n is accepted when dev is an
\* interface of n, via is on its subnet and no route to dst exists
RouteAccepted(c) ==
    /\ c.dev \in DOMAIN intfs
    /\ intfs[c.dev].node = c.node
    /\ InSubnet(c.via, intfs[c.dev].ip)
    /\ \A r \in Table(c.node) : r.dst # c.dst

\* where run() goes after setup command number k, whose outcome was ok: the
\* outcome is not looked at
CmdNextAbort(k, ok) ==
    IF ~ok THEN [pc |-> "done", i |-> 1]
    ELSE IF k < Len(RunCmds) THEN [pc |-> "cmds", i |-> k + 1]
                             ELSE [pc |-> After("cmds"), i |-> 1]

CmdNext(k, ok) ==
    IF k < Len(RunCmds) THEN [pc |-> "cmds", i |-> k + 1]
                        ELSE [pc |-> After("cmds"), i |-> 1]

\* net[ node ].cmd( ... ): the command runs in the node's shell; it may fail
\* for a reason outside the program (envOk), and a failed command changes
\* nothing
RunCmd ==
    /\ pc = "cmds"
    /\ \E envOk \in BOOLEAN :
         LET c  == RunCmds[i]
             ok == /\ envOk
                   /\ node[c.node].state # "terminated"
                   /\ c.kind = "route" => RouteAccepted(c)
             nx == CmdNext(i, ok)
         IN  /\ routes' = IF ok /\ c.kind = "route"
                          THEN [routes EXCEPT ![c.node] =
                                  @ \cup {[dst |-> c.dst, via |-> c.via, dev |-> c.dev]}]
                          ELSE routes
             /\ filter' = IF ok /\ c.kind = "filter"
                          THEN [filter EXCEPT ![c.node] =
                                  @ \cup {[proto |-> c.proto, dst |-> c.dst]}]
                          ELSE filter
             /\ cmdLog' = Append(cmdLog, [node |-> c.node, cmd |-> "run", k |-> i, ok |-> ok])
             /\ pc' = nx.pc
             /\ i' = nx.i
    /\ phaseLog' = Enter
    /\ UNCHANGED <<topoNodes, topoPorts, topoLinks, hosts, node, intfs, links,
                   fwd, started, pings, lastPing, envFwd>>

\* CLI( net ): the operator probes reachability between two nodes ...
CliPing ==
    /\ pc = "cli"
    /\ pings < MaxPings
    /\ \E src \in DOMAIN node, dst \in DOMAIN node, proto \in Protocols :
         /\ src # dst
         /\ lastPing' = Deliver(src, dst, proto)
    /\ pings' = pings + 1
    /\ phaseLog' = Enter
    /\ UNCHANGED <<pc, i, topoNodes, topoPorts, topoLinks, hosts, node, intfs,
                   links, routes, fwd, filter, started, cmdLog, envFwd>>

\* ... and leaves the session
CliExit ==
    /\ pc = "cli"
    /\ phaseLog' = Enter
    /\ Advance(1)
    /\ UNCHANGED <<topoNodes, topoPorts, topoLinks, hosts, node, intfs, links,
                   routes, fwd, filter, started, cmdLog, pings, lastPing, envFwd>>

\* net.stop(), first loop: every link is stopped, which deletes its interfaces
StopLink ==
    /\ pc = "stop_links"
    /\ intfs' = [x \in (DOMAIN intfs) \ {links[i].intf1, links[i].intf2} |-> intfs[x]]
    /\ phaseLog' = Enter
    /\ Advance(Len(links))
    /\ UNCHANGED <<topoNodes, topoPorts, topoLinks, hosts, node, links, routes,
                   fwd, filter, started, cmdLog, pings, lastPing, envFwd>>

\* net.stop(), second loop: terminate() of every node, in creation order
TerminateHost ==
    /\ pc = "stop_hosts"
    /\ LET n == hosts[i]
           r == ExecSteps(n, TerminateSteps(node[n].cls),
                          [state |-> node[n].state, fwd |-> fwd[n], log |-> cmdLog])
       IN  /\ node' = [node EXCEPT ![n].state = r.state]
           /\ fwd' = [fwd EXCEPT ![n] = r.fwd]
           /\ cmdLog' = r.log
    /\ phaseLog' = Enter
    /\ Advance(Len(hosts))
    /\ UNCHANGED <<topoNodes, topoPorts, topoLinks, hosts, intfs, links, routes,
                   filter, started, pings, lastPing, envFwd>>

Next ==
    \/ TopoAddNode \/ TopoAddHost \/ TopoAddLink
    \/ MnAddHost \/ MnAddLink \/ MnConfigHost
    \/ NetStart \/ RunCmd
    \/ CliPing \/ CliExit
    \/ StopLink \/ TerminateHost

Spec == Init /\ [][Next]_vars

----------------------------------------------------------------------------
(* Properties *)

Routers == {n \in DOMAIN topoNodes : ClsOf(topoNodes[n]) = "LinuxRouter"}
Hosts   == {n \in DOMAIN topoNodes : ClsOf(topoNodes[n]) = "Host"}

\* the setup commands issued so far, in order
Runs ==
    LET isRun(e) == e.cmd = "run"
    IN  SelectSeq(cmdLog, isRun)

\* positions of the log entries of command c on node n
LogAt(n, c) == {j \in 1..Len(cmdLog) : cmdLog[j].node = n /\ cmdLog[j].cmd = c}

AfterSetup == {"cli", "stop_links", "stop_hosts", "done"}

C2_InterRouterEndpoints ==
    pc # "topo" =>
        \E k \in 1..Len(topoLinks) :
            LET l == topoLinks[k]
            IN  /\ l.node1 = "r0" /\ l.node2 = "r1"
                /\ EndpointName(l, "intfName1", l.node1, l.port1) = <<"r0", 1>>
                /\ EndpointName(l, "intfName2", l.node2, l.port2) = <<"r1", 1>>
                /\ ParamIP(EndpointParams(l, "params1")) = defaultr0IP
                /\ ParamIP(EndpointParams(l, "params2")) = defaultr1IP

Phases == <<"construct", "start", "inject", "session", "stop">>

\* C3: the phases of run() are entered in the order construction, start,
\* injection of the five setup commands, session, stop, each at most once
\* and all of them by the end, and a phase is entered only when the one
\* before it is complete
C3_PhaseOrder ==
    /\ Len(phaseLog) <= Len(Phases)
    /\ \A j \in 1..Len(phaseLog) : phaseLog[j] = Phases[j]
    /\ pc = "done" => phaseLog = Phases
    /\ Len(phaseLog) >= 2 =>
          /\ DOMAIN node = DOMAIN topoNodes
          /\ Len(links) = Len(topoLinks)
          /\ \A n \in DOMAIN node : LogAt(n, "config") # {}
    /\ Len(phaseLog) >= 3 => started
    /\ Len(phaseLog) >= 4 => Len(Runs) = Len(RunCmds)
    /\ Len(phaseLog) >= 5 => pc \in {"stop_links", "stop_hosts", "done"}

\* C3, reachable case: a complete run
C3_RunComplete == pc = "done" /\ phaseLog = Phases

\* C4: a router that is configured and not yet stopped has IP forwarding
\* enabled, and a router that has been stopped has it disabled
C4_RouterForwarding ==
    \A n \in DOMAIN node :
        node[n].cls = "LinuxRouter" =>
            /\ node[n].state = "running" => fwd[n]
            /\ node[n].state = "terminated" => ~fwd[n]

\* C4, reachable case: r0 has been stopped while r1 is still running, in a run whose
\* fresh namespaces start with forwarding disabled
C4_OneStoppedOneRunning ==
    /\ "r0" \in DOMAIN node /\ "r1" \in DOMAIN node
    /\ node["r0"].state = "terminated" /\ ~fwd["r0"]
    /\ node["r1"].state = "running" /\ fwd["r1"]
    /\ ~envFwd

\* C5: once the network is built, the two interfaces of every link carry
\* addresses of one subnet: each lies in the subnet of the other
C5_LinkSubnets ==
    pc \in {"start", "cmds", "cli"} =>
        /\ Len(links) = Len(topoLinks)
        /\ \A k \in 1..Len(links) :
              LET a == intfs[links[k].intf1].ip
                  b == intfs[links[k].intf2].ip
              IN  InSubnet(a, b) /\ InSubnet(b, a)

\* C5, reachable case: the built network with the inter-router link and a host link
\* addressed
C5_Addressed ==
    /\ pc = "start"
    /\ intfs[<<"r0", 1>>].ip = defaultr0IP
    /\ intfs[<<"r1", 1>>].ip = defaultr1IP
    /\ intfs[<<"h3", 0>>].ip = <<192, 168, 5, 100, 24>>
    /\ intfs[<<"r1", 3>>].ip = <<192, 168, 5, 1, 24>>

\* C7: when a setup command has failed, the commands issued are still the
\* five of run() in their order, each once; the later ones follow the failed
\* one, the session is then opened and the network stopped
C7_ContinueAfterFailure ==
    (\E j \in 1..Len(Runs) : ~Runs[j].ok) =>
        /\ \A j \in 1..Len(Runs) : Runs[j].k = j /\ Runs[j].node = RunCmds[j].node
        /\ pc = "cmds" => Len(Runs) = i - 1
        /\ pc # "cmds" => /\ pc \in AfterSetup
                          /\ Len(Runs) = Len(RunCmds)
                          /\ phaseLog[Len(phaseLog)] \in {"inject", "session", "stop"}
        /\ pc = "done" => /\ SubSeq(phaseLog, 3, 5) = <<"inject", "session", "stop">>
                          /\ \A n \in DOMAIN node : node[n].state = "terminated"

\* C7, reachable case: a complete run whose first setup command failed
C7_FailedFirstThenDone ==
    pc = "done" /\ Len(Runs) = 5 /\ ~Runs[1].ok /\ Runs[5].ok

\* C8: when a route command is about to be issued, every link and node of
\* the graph is built and configured, the network is started, the target
\* node is running, and the interface the command names is an interface of
\* that node whose subnet contains the next hop
C8_RoutePrecondition ==
    (pc = "cmds" /\ RunCmds[i].kind = "route") =>
        LET c == RunCmds[i]
        IN  /\ started
            /\ Len(links) = Len(topoLinks)
            /\ DOMAIN node = DOMAIN topoNodes
            /\ \A n \in DOMAIN node : node[n].state = "running"
            /\ \A x \in DOMAIN intfs : intfs[x].ip # NoIP
            /\ c.dev \in DOMAIN intfs
            /\ intfs[c.dev].node = c.node
            /\ InSubnet(c.via, intfs[c.dev].ip)

\* C8, reachable case: the first route on r1 is about to be issued, the two routes
\* on r0 are installed
C8_AboutToRoute ==
    /\ pc = "cmds" /\ i = 3
    /\ Cardinality(routes["r0"]) = 2

\* C9: for each router, forwarding is enabled once, after the base
\* configuration and before any setup command and the session; it is
\* disabled once, during stop, before the base termination; no disable
\* without an earlier enable, and both have happened at the end; no
\* forwarding command is ever run on a host, whose setting stays as inherited
C9_ForwardingHooks ==
    /\ \A n \in DOMAIN node :
          node[n].cls = "LinuxRouter" =>
              /\ Cardinality(LogAt(n, "sysctl1")) <= 1
              /\ Cardinality(LogAt(n, "sysctl0")) <= 1
              /\ \A e \in LogAt(n, "sysctl1") :
                    /\ \E b \in LogAt(n, "config") : b < e
                    /\ \A j \in 1..Len(cmdLog) : cmdLog[j].cmd = "run" => e < j
              /\ \A d \in LogAt(n, "sysctl0") :
                    /\ \E e \in LogAt(n, "sysctl1") : e < d
                    /\ \A t \in LogAt(n, "terminate") : d < t
              /\ node[n].state = "running" => Cardinality(LogAt(n, "sysctl1")) = 1
              /\ node[n].state # "terminated" => LogAt(n, "sysctl0") = {}
              /\ node[n].state = "terminated" =>
                    /\ Cardinality(LogAt(n, "sysctl1")) = 1
                    /\ Cardinality(LogAt(n, "sysctl0")) = 1
    /\ pc \in {"start", "cmds", "cli"} =>
          \A n \in DOMAIN node : node[n].state = "running"
    /\ \A n \in DOMAIN node :
          node[n].cls = "Host" =>
              /\ LogAt(n, "sysctl1") = {} /\ LogAt(n, "sysctl0") = {}
              /\ fwd[n] = envFwd

\* C9, reachable case: a complete run in which both routers enabled and disabled
\* forwarding
C9_BothPaired ==
    /\ pc = "done"
    /\ LogAt("r0", "sysctl1") # {} /\ LogAt("r0", "sysctl0") # {}
    /\ LogAt("r1", "sysctl1") # {} /\ LogAt("r1", "sysctl0") # {}

\* C10: in the session, after five successful setup commands, a packet from
\* any host to any other host is delivered within two router hops, except
\* that an ICMP packet to h4 is dropped by the filter of r1
C10_Reachability ==
    (pc = "cli" /\ Len(Runs) = Len(RunCmds) /\ \A j \in 1..Len(Runs) : Runs[j].ok) =>
        \A s \in Hosts, d \in Hosts, proto \in Protocols :
            s # d =>
                LET res == Deliver(s, d, proto)
                IN  IF proto = "icmp" /\ node[d].params.ip = <<192, 168, 4, 100, 24>>
                    THEN res.status = "filtered" /\ res.at = "r1"
                    ELSE res.status = "delivered" /\ res.at = d /\ res.hops <= 2

\* C10, reachable case: in such a session a probe crossed both routers and was
\* delivered
C10_TwoHopProbe ==
    /\ pc = "cli" /\ Len(Runs) = Len(RunCmds) /\ \A j \in 1..Len(Runs) : Runs[j].ok
    /\ lastPing.status = "delivered" /\ lastPing.hops = 2

====
